---------------------------- MODULE Spec2Model ----------------------------
(* A model of uinput_cli.c: the touch-event injection tool.                *)
(*                                                                         *)
(* The state is the multi-touch slot tracker (slot_tracking,               *)
(* next_tracking_id, active_touches), the mapping configuration (ui_w,     *)
(* ui_h), the device (its absolute-axis ranges and the last BTN_TOUCH      *)
(* value it received) and, for the operation that ran last, the events it  *)
(* wrote, the sleeps it took and the value it returned.                    *)
(*                                                                         *)
(* One action models one whole call of a gesture function.  A device       *)
(* write can fail: every action draws failAt, the index of the write of    *)
(* the call that fails (0: none does).                                     *)
EXTENDS Integers, Sequences, FiniteSets, TLC

VARIABLES
    slot_tracking,      \* uinput_cli.c:49  tracking ID of each slot, 0 = inactive
    next_tracking_id,   \* uinput_cli.c:50
    active_touches,     \* uinput_cli.c:51
    ui_w,               \* uinput_cli.c:54  logical width, 0 = no mapping
    ui_h,               \* uinput_cli.c:55
    absinfo,            \* the device: axis code -> [ok, minimum, maximum]
    btn_touch,          \* the device: last BTN_TOUCH value written to it
    log,                \* events the last operation wrote, in order
    sleeps,             \* sleeps the last operation took: [at, ms]
    ret,                \* value the last operation returned
    op,                 \* the last operation: [name, args]
    write_failed,       \* a device write of the last operation failed
    alloc_hist,         \* history: the last two tracking IDs handed out
    down_run,           \* history: length of the run of successful mt-downs
                        \*   on distinct slots since the table was empty
    run_asserts         \* history: BTN_TOUCH=1 writes during that run

vars == <<slot_tracking, next_tracking_id, active_touches, ui_w, ui_h,
          absinfo, btn_touch, log, sleeps, ret, op, write_failed,
          alloc_hist, down_run, run_asserts>>

-----------------------------------------------------------------------------
(* Program constants *)

RS_OK == 0
RS_ERR == -1

\* #define MAX_SLOTS: the multi-touch code is compiled when it exceeds 1.
\* The model takes the smallest such build.
MAX_SLOTS == 2

\* The ceiling of next_tracking_id (1000000 in the source), scaled down so
\* that the counter wraps within a checked run.
TID_CEILING == 2

\* steps < 1 is replaced by this step count
DEFAULT_STEPS == 10

-----------------------------------------------------------------------------
(* Bounds of the model *)

\* mt-down is not taken once active_touches has reached this value
MaxActive == 2

\* swipe is called with steps up to this value
MaxSteps == 2

Coords == {0, 6}

\* the points mt-down and mt-move are given
DownPoints == { <<6, 6>> }
MovePoints == { <<0, 6>>, <<6, 0>> }

\* the paths swipe is given: <<x1, y1, x2, y2>>
SwipePaths == { <<0, 0, 6, 6>>, <<6, 0, 0, 6>>, <<6, 6, 6, 6>> }
HoldMs == {0, 100}
DurationMs == {0, 25}
SlotArgs == -1 .. MAX_SLOTS
StepArgs == -1 .. MaxSteps
\* the write of a call that fails (0: none): a call of do_tap makes 10
\* writes, of do_press 6, of do_release 4, of mt_down up to 8, of mt_move
\* 5 and of mt_up up to 6
FailPoints(writes) == 0 .. writes

\* do_swipe makes 10 writes for its tap, 3 for each step and 2 for its
\* release; its failures are drawn from the tap, the first step, the last
\* step's commit and the release
SwipeFailPoints(steps) ==
    LET total == 12 + 3 * (IF steps < 1 THEN DEFAULT_STEPS ELSE steps)
    IN (0 .. 13) \cup (total - 2 .. total)

NoAxis == [ok |-> FALSE, minimum |-> 0, maximum |-> 0]
Axis(lo, hi) == [ok |-> TRUE, minimum |-> lo, maximum |-> hi]

AxisCodes == {"ABS_MT_POSITION_X", "ABS_X", "ABS_MT_POSITION_Y", "ABS_Y"}

\* Devices the gestures are run against: a multi-touch panel and a
\* single-touch panel.
MtPanel ==
    [c \in AxisCodes |->
        CASE c = "ABS_MT_POSITION_X" -> Axis(0, 24)
          [] c = "ABS_MT_POSITION_Y" -> Axis(2, 8)
          [] c = "ABS_X"             -> Axis(0, 12)
          [] c = "ABS_Y"             -> Axis(0, 12)]

StPanel ==
    [c \in AxisCodes |->
        CASE c = "ABS_X" -> Axis(1, 13)
          [] c = "ABS_Y" -> Axis(0, 18)
          [] OTHER       -> NoAxis]

\* The runs: the logical resolution (--map W H, or the compiled-in
\* LOGICAL_W / LOGICAL_H = 0, 0) and the device.
Setups ==
    { [w |-> 0,  h |-> 0, dev |-> StPanel],
      [w |-> 12, h |-> 6, dev |-> MtPanel] }

-----------------------------------------------------------------------------
(* Event emitter *)

Ev(type, code, value) == [type |-> type, code |-> code, value |-> value]

\* syn(): the frame-commit marker
SynReport == Ev("EV_SYN", "SYN_REPORT", 0)

\* syn_mt(): the multi-touch-report marker
SynMtReport == Ev("EV_SYN", "SYN_MT_REPORT", 0)

\* The writer state threaded through a call: the events written so far,
\* the sleeps taken, and ok = no write has failed (the call has not
\* returned RS_ERR yet).
NewWriter == [log |-> <<>>, sleeps |-> <<>>, ok |-> TRUE]

\* faulty variant: the chain goes on past the write that failed
write_events_past_failure(w, evs, failAt) ==
    IF ~w.ok THEN w
    ELSE LET done == Len(w.log)
             k    == failAt - done
         IN IF k >= 1 /\ k <= Len(evs)
            THEN [w EXCEPT !.log = w.log \o SubSeq(evs, 1, k - 1)
                                         \o SubSeq(evs, k + 1, Len(evs)),
                           !.ok = FALSE]
            ELSE [w EXCEPT !.log = w.log \o evs]

\* A chain  write_event(..) == RS_ERR || write_event(..) == RS_ERR || ... :
\* the events are written in order; the write whose index in the call is
\* failAt writes nothing and ends the chain.
write_events(w, evs, failAt) ==
    IF ~w.ok THEN w
    ELSE LET done == Len(w.log)
             k    == failAt - done
         IN IF k >= 1 /\ k <= Len(evs)
            THEN [w EXCEPT !.log = w.log \o SubSeq(evs, 1, k - 1),
                           !.ok = FALSE]
            ELSE [w EXCEPT !.log = w.log \o evs]

\* msleep(): sleeps only when ms > 0
msleep(w, ms) ==
    IF w.ok /\ ms > 0
    THEN [w EXCEPT !.sleeps = Append(w.sleeps, [at |-> Len(w.log), ms |-> ms])]
    ELSE w

Result(w) == IF w.ok THEN RS_OK ELSE RS_ERR

-----------------------------------------------------------------------------
(* Coordinate mapper *)

Abs(n) == IF n < 0 THEN -n ELSE n

\* C integer division: truncates toward zero
CDiv(a, b) ==
    LET q == Abs(a) \div Abs(b)
    IN IF (a < 0) = (b < 0) THEN q ELSE -q

\* faulty variant: an unset dimension taken as 1 instead of passing through
map_coord_unset_as_one(l, ui, mt, st) ==
    LET d == IF ui = 0 THEN 1 ELSE ui
    IN IF ~mt.ok /\ ~st.ok THEN l
       ELSE LET ax == IF mt.ok THEN mt ELSE st
            IN CDiv(l * (ax.maximum - ax.minimum), d) + ax.minimum

\* faulty variant: the span taken as minimum - maximum
map_coord_span_reversed(l, ui, mt, st) ==
    IF ui = 0 THEN l
    ELSE IF ~mt.ok /\ ~st.ok THEN l
    ELSE LET ax == IF mt.ok THEN mt ELSE st
         IN CDiv(l * (ax.minimum - ax.maximum), ui) + ax.minimum

\* faulty variant: the single-touch axis asked first
map_coord_st_first(l, ui, mt, st) ==
    IF ui = 0 THEN l
    ELSE IF ~mt.ok /\ ~st.ok THEN l
    ELSE LET ax == IF st.ok THEN st ELSE mt
         IN CDiv(l * (ax.maximum - ax.minimum), ui) + ax.minimum

\* The body shared by map_x and map_y: l the logical coordinate, ui the
\* logical dimension, mt and st the answers of the two axis queries.
\* The product is computed in long long and the result converted to int;
\* the coordinates and ranges drawn here stay far inside both widths.
map_coord(l, ui, mt, st) ==
    IF ui = 0 THEN l
    ELSE IF ~mt.ok /\ ~st.ok THEN l
    ELSE LET ax == IF mt.ok THEN mt ELSE st
         IN CDiv(l * (ax.maximum - ax.minimum), ui) + ax.minimum

map_x(lx) == map_coord(lx, ui_w, absinfo["ABS_MT_POSITION_X"], absinfo["ABS_X"])

map_y(ly) == map_coord(ly, ui_h, absinfo["ABS_MT_POSITION_Y"], absinfo["ABS_Y"])

-----------------------------------------------------------------------------
(* Single-touch gestures *)

\* the six events that assert a contact at device position (x, y)
contact_events(x, y) ==
    << Ev("EV_KEY", "BTN_TOUCH", 1),
       Ev("EV_KEY", "BTN_TOOL_FINGER", 1),
       Ev("EV_ABS", "ABS_MT_POSITION_X", x),
       Ev("EV_ABS", "ABS_MT_POSITION_Y", y),
       SynMtReport,
       SynReport >>

\* faulty variant: the release without its multi-touch-report marker
release_events_no_mt_report ==
    << Ev("EV_KEY", "BTN_TOUCH", 0),
       Ev("EV_KEY", "BTN_TOOL_FINGER", 0),
       SynReport >>

\* the four events that release the contact
release_events ==
    << Ev("EV_KEY", "BTN_TOUCH", 0),
       Ev("EV_KEY", "BTN_TOOL_FINGER", 0),
       SynMtReport,
       SynReport >>

do_tap(w, lx, ly, hold_ms, failAt) ==
    LET x  == map_x(lx)
        y  == map_y(ly)
        w1 == write_events(w, contact_events(x, y), failAt)
        w2 == msleep(w1, hold_ms)
    IN write_events(w2, release_events, failAt)

do_press(w, lx, ly, failAt) ==
    write_events(w, contact_events(map_x(lx), map_y(ly)), failAt)

do_release(w, failAt) == write_events(w, release_events, failAt)

do_longpress(w, lx, ly, hold_ms, failAt) == do_tap(w, lx, ly, hold_ms, failAt)

\* faulty variant: the step count taken as given
swipe_steps_as_given(steps) == steps

\* steps < 1 is normalised to DEFAULT_STEPS
swipe_steps(steps) == IF steps < 1 THEN DEFAULT_STEPS ELSE steps

\* x1 + (x2 - x1) * t with t = (float)i / steps, converted to int.  The
\* conversion truncates toward zero; for the coordinates and step counts
\* drawn here the float product is exact.
interpolate(a, b, i, steps) == CDiv(a * steps + (b - a) * i, steps)

\* one iteration of the loop of do_swipe
swipe_frame(xi, yi) ==
    << Ev("EV_ABS", "ABS_X", map_x(xi)),
       Ev("EV_ABS", "ABS_Y", map_y(yi)),
       SynReport >>

\* the release that ends do_swipe
swipe_release == << Ev("EV_KEY", "BTN_TOUCH", 0), SynReport >>

RECURSIVE swipe_loop(_, _, _, _, _, _, _, _, _)
swipe_loop(w, i, x1, y1, x2, y2, duration_ms, steps, failAt) ==
    IF i > steps \/ ~w.ok THEN w
    ELSE LET xi == interpolate(x1, x2, i, steps)
             yi == interpolate(y1, y2, i, steps)
             w1 == write_events(w, swipe_frame(xi, yi), failAt)
             w2 == msleep(w1, CDiv(duration_ms, steps))
         IN swipe_loop(w2, i + 1, x1, y1, x2, y2, duration_ms, steps, failAt)

do_swipe(w, x1, y1, x2, y2, duration_ms, steps0, failAt) ==
    LET steps == swipe_steps(steps0)
        w1 == do_tap(w, x1, y1, 0, failAt)
        w2 == swipe_loop(w1, 1, x1, y1, x2, y2, duration_ms, steps, failAt)
    IN write_events(w2, swipe_release, failAt)

-----------------------------------------------------------------------------
(* Multi-touch slot tracker (compiled when MAX_SLOTS > 1) *)

Slots == 0 .. MAX_SLOTS - 1

\* The tracker's three globals as one value
Tracker == [slot_tracking    |-> slot_tracking,
            next_tracking_id |-> next_tracking_id,
            active_touches   |-> active_touches]

\* slot < 0 || slot >= MAX_SLOTS
slot_out_of_range(slot) == slot < 0 \/ slot >= MAX_SLOTS

\* faulty variant: the wrap taken one ID early
advance_tracking_id_early(n) == IF n + 1 >= TID_CEILING THEN 1 ELSE n + 1

\* next_tracking_id after  tid = next_tracking_id++  and the wrap
advance_tracking_id(n) == IF n + 1 > TID_CEILING THEN 1 ELSE n + 1

\* faulty variant: BTN_TOUCH asserted by every mt_down
is_first_touch_always(active) == TRUE

\* mt_down asserts BTN_TOUCH when no touch is counted as active
is_first_touch(active) == active = 0

\* faulty variant: the comparison of mt_up made strict
is_last_touch_strict(active) == active - 1 < 0

\* mt_up deasserts BTN_TOUCH when  --active_touches <= 0
is_last_touch(active) == active - 1 <= 0

\* btn_touch_set(): BTN_TOUCH = val in a frame of its own
btn_touch_set(w, val, failAt) ==
    write_events(w, << Ev("EV_KEY", "BTN_TOUCH", val), SynReport >>, failAt)

mt_down_events(slot, tid, x, y) ==
    << Ev("EV_ABS", "ABS_MT_SLOT", slot),
       Ev("EV_ABS", "ABS_MT_TRACKING_ID", tid),
       Ev("EV_ABS", "ABS_MT_POSITION_X", x),
       Ev("EV_ABS", "ABS_MT_POSITION_Y", y),
       SynMtReport,
       SynReport >>

\* faulty variant: the frame of mt_move without its SYN_MT_REPORT
mt_move_events_no_mt_report(slot, x, y) ==
    << Ev("EV_ABS", "ABS_MT_SLOT", slot),
       Ev("EV_ABS", "ABS_MT_POSITION_X", x),
       Ev("EV_ABS", "ABS_MT_POSITION_Y", y),
       SynReport >>

mt_move_events(slot, x, y) ==
    << Ev("EV_ABS", "ABS_MT_SLOT", slot),
       Ev("EV_ABS", "ABS_MT_POSITION_X", x),
       Ev("EV_ABS", "ABS_MT_POSITION_Y", y),
       SynMtReport,
       SynReport >>

mt_up_events(slot) ==
    << Ev("EV_ABS", "ABS_MT_SLOT", slot),
       Ev("EV_ABS", "ABS_MT_TRACKING_ID", -1),
       SynMtReport,
       SynReport >>

\* faulty variant: the guard of mt_move without its tracking-ID test
mt_move_rejects_range_only(table, slot) == slot_out_of_range(slot)

\* the guard of mt_move
mt_move_rejects(table, slot) == slot_out_of_range(slot) \/ table[slot] = 0

\* the guard of mt_up (the first three disjuncts of its condition)
mt_up_rejects(table, slot) == slot_out_of_range(slot) \/ table[slot] = 0

\* The result of a multi-touch call: the tracker and the writer after it,
\* the tracking IDs it allocated (<<>> or <<tid>>) and the value it returned.
MtResult(t, w, tids, r) == [t |-> t, w |-> w, tids |-> tids, ret |-> r]

mt_down(t, w, slot, lx, ly, failAt) ==
    IF slot_out_of_range(slot) THEN MtResult(t, w, <<>>, RS_ERR)
    ELSE
    LET x   == map_x(lx)
        y   == map_y(ly)
        tid == t.next_tracking_id
        t1  == [t EXCEPT !.next_tracking_id = advance_tracking_id(tid),
                         !.slot_tracking[slot] = tid]
        w1  == IF is_first_touch(t.active_touches)
               THEN btn_touch_set(w, 1, failAt)
               ELSE w
    IN IF ~w1.ok THEN MtResult(t1, w1, <<tid>>, RS_ERR)
       ELSE
       LET t2 == [t1 EXCEPT !.active_touches = t.active_touches + 1]
           w2 == write_events(w1, mt_down_events(slot, tid, x, y), failAt)
       IN MtResult(t2, w2, <<tid>>, Result(w2))

mt_move(t, w, slot, lx, ly, failAt) ==
    IF mt_move_rejects(t.slot_tracking, slot) THEN MtResult(t, w, <<>>, RS_ERR)
    ELSE
    LET x  == map_x(lx)
        y  == map_y(ly)
        w1 == write_events(w, mt_move_events(slot, x, y), failAt)
    IN MtResult(t, w1, <<>>, Result(w1))

mt_up(t, w, slot, failAt) ==
    IF mt_up_rejects(t.slot_tracking, slot) THEN MtResult(t, w, <<>>, RS_ERR)
    ELSE
    LET w1 == write_events(w, mt_up_events(slot), failAt)
    IN IF ~w1.ok THEN MtResult(t, w1, <<>>, RS_ERR)
       ELSE
       LET last == is_last_touch(t.active_touches)
           t1 == [t EXCEPT !.slot_tracking[slot] = 0,
                           !.active_touches =
                               IF last THEN 0 ELSE t.active_touches - 1]
           w2 == IF last THEN btn_touch_set(w1, 0, failAt) ELSE w1
       IN MtResult(t1, w2, <<>>, Result(w2))

-----------------------------------------------------------------------------
(* History kept for the properties *)

IsBtnTouch(e) == e.type = "EV_KEY" /\ e.code = "BTN_TOUCH"

\* positions of the BTN_TOUCH = val writes in a log
BtnTouchAt(l, val) == { i \in 1 .. Len(l) : IsBtnTouch(l[i]) /\ l[i].value = val }

\* positions of the BTN_TOUCH writes in a log
BtnTouchWrites(l) == { i \in 1 .. Len(l) : IsBtnTouch(l[i]) }

\* the device's BTN_TOUCH state after a log is written to it
BtnTouchAfter(prev, l) ==
    IF BtnTouchWrites(l) = {} THEN prev
    ELSE l[CHOOSE i \in BtnTouchWrites(l) : \A j \in BtnTouchWrites(l) : j <= i].value

\* number of frame-commit markers in a log
Commits(l) == Cardinality({ i \in 1 .. Len(l) : l[i] = SynReport })

TableEmpty(t) ==
    /\ \A s \in Slots : t.slot_tracking[s] = 0
    /\ t.active_touches = 0

LastTwo(s) == IF Len(s) > 2 THEN SubSeq(s, Len(s) - 1, Len(s)) ELSE s

-----------------------------------------------------------------------------
(* Initial state: the globals as the program initialises them, one of the  *)
(* devices, one of the mapping configurations.                             *)

Init ==
    /\ slot_tracking = [s \in Slots |-> 0]
    /\ next_tracking_id = 1
    /\ active_touches = 0
    /\ \E s \in Setups : ui_w = s.w /\ ui_h = s.h /\ absinfo = s.dev
    /\ btn_touch = 0
    /\ log = <<>>
    /\ sleeps = <<>>
    /\ ret = RS_OK
    /\ op = [name |-> "none", args |-> <<>>]
    /\ write_failed = FALSE
    /\ alloc_hist = <<>>
    /\ down_run = 0
    /\ run_asserts = 0

\* what every call leaves behind on the device and in the history
Finish(name, args, w, r) ==
    /\ log' = w.log
    /\ sleeps' = w.sleeps
    /\ ret' = r
    /\ op' = [name |-> name, args |-> args]
    /\ btn_touch' = BtnTouchAfter(btn_touch, w.log)
    /\ write_failed' = ~w.ok
    /\ UNCHANGED <<ui_w, ui_h, absinfo>>

SetTracker(t) ==
    /\ slot_tracking' = t.slot_tracking
    /\ next_tracking_id' = t.next_tracking_id
    /\ active_touches' = t.active_touches

-----------------------------------------------------------------------------
(* Single-touch actions *)

SingleTouch(name, args, w) ==
    /\ Finish(name, args, w, Result(w))
    /\ down_run' = 0
    /\ run_asserts' = 0
    /\ UNCHANGED <<slot_tracking, next_tracking_id, active_touches, alloc_hist>>

Tap ==
    \E x \in Coords, y \in Coords, hold \in HoldMs, failAt \in FailPoints(10) :
        SingleTouch("tap", <<x, y, hold>>, do_tap(NewWriter, x, y, hold, failAt))

Press ==
    \E x \in Coords, y \in Coords, failAt \in FailPoints(6) :
        SingleTouch("press", <<x, y>>, do_press(NewWriter, x, y, failAt))

Release ==
    \E failAt \in FailPoints(4) :
        SingleTouch("release", <<>>, do_release(NewWriter, failAt))

Longpress ==
    \E x \in Coords, y \in Coords, hold \in HoldMs, failAt \in FailPoints(10) :
        SingleTouch("longpress", <<x, y, hold>>,
                    do_longpress(NewWriter, x, y, hold, failAt))

Swipe ==
    \E p \in SwipePaths, ms \in DurationMs, steps \in StepArgs :
    \E failAt \in SwipeFailPoints(steps) :
        SingleTouch("swipe", <<p[1], p[2], p[3], p[4], ms, steps>>,
                    do_swipe(NewWriter, p[1], p[2], p[3], p[4], ms, steps, failAt))

-----------------------------------------------------------------------------
(* Multi-touch actions *)

MtDown ==
    \E slot \in SlotArgs, p \in DownPoints, failAt \in FailPoints(8) :
        /\ active_touches < MaxActive
        /\ LET r == mt_down(Tracker, NewWriter, slot, p[1], p[2], failAt)
               fresh == ~slot_out_of_range(slot) /\ slot_tracking[slot] = 0
               inRun == r.ret = RS_OK /\ fresh
                        /\ (TableEmpty(Tracker) \/ down_run >= 1)
           IN /\ Finish("mt-down", <<slot, p[1], p[2]>>, r.w, r.ret)
              /\ SetTracker(r.t)
              /\ alloc_hist' = LastTwo(alloc_hist \o r.tids)
              /\ down_run' = IF inRun THEN down_run + 1 ELSE 0
              /\ run_asserts' = IF inRun
                                THEN run_asserts
                                     + Cardinality(BtnTouchAt(r.w.log, 1))
                                ELSE 0

MtMove ==
    \E slot \in SlotArgs, p \in MovePoints, failAt \in FailPoints(5) :
        LET r == mt_move(Tracker, NewWriter, slot, p[1], p[2], failAt)
        IN /\ Finish("mt-move", <<slot, p[1], p[2]>>, r.w, r.ret)
           /\ SetTracker(r.t)
           /\ UNCHANGED <<alloc_hist, down_run, run_asserts>>

MtUp ==
    \E slot \in SlotArgs, failAt \in FailPoints(6) :
        LET r == mt_up(Tracker, NewWriter, slot, failAt)
        IN /\ Finish("mt-up", <<slot>>, r.w, r.ret)
           /\ SetTracker(r.t)
           /\ down_run' = 0
           /\ run_asserts' = 0
           /\ UNCHANGED alloc_hist

-----------------------------------------------------------------------------
(* Specifications *)

SingleNext == Tap \/ Press \/ Release \/ Longpress \/ Swipe

MtNext == MtDown \/ MtMove \/ MtUp

Next == SingleNext \/ MtNext

\* any sequence of gesture calls in one process
Spec == Init /\ [][Next]_vars

\* any sequence of single-touch gesture calls
SpecSingle == Init /\ [][SingleNext]_vars

\* any sequence of mt-down / mt-move / mt-up calls on one slot table
SpecMt == Init /\ [][MtNext]_vars

\* The single-touch gestures read nothing of the program's state, so a
\* first call of each covers them; the multi-touch calls follow in any
\* order.
FirstCall == op.name = "none"

CallsNext == (FirstCall /\ SingleNext) \/ MtNext

\* every gesture function, called on the states it can meet
SpecCalls == Init /\ [][CallsNext]_vars

-----------------------------------------------------------------------------
(* Invocations of the program *)

\* main() runs one verb per process.  The numeric arguments a verb requires
\* are present (their atoi values are the inputs); the options -d and --grab
\* change no event, and every invocation is given the --map option chosen
\* in Init.
TAP_DEFAULT_HOLD == 100
MAIN_DEFAULT_STEPS == 20

\* an optional trailing argument:  optind+k < argc ? atoi(argv[optind+k]) : d
OptArg(a, d) == IF a = <<>> THEN d ELSE a[1]

OptHold == {<<>>} \cup { <<h>> : h \in HoldMs }
OptSteps == {<<>>} \cup { <<n>> : n \in StepArgs }

\* the write that fails in an invocation: none, the first or the last of
\* the verb's writes
MainFailPoints(writes) == {0, 1, writes}

\* verbs that reach the final else of the dispatch; the mt-* branches are
\* compiled only  #if MAX_SLOTS > 1
UnknownVerbs ==
    {"bogus"} \cup (IF MAX_SLOTS > 1 THEN {} ELSE {"mt-down", "mt-move", "mt-up"})

\* faulty variant: the slot table of the previous process is found again
StartTracker_persisting == Tracker

\* the statics of a new process: slot_tracking zeroed, next_tracking_id = 1,
\* active_touches = 0
StartTracker ==
    [slot_tracking    |-> [s \in Slots |-> 0],
     next_tracking_id |-> 1,
     active_touches   |-> 0]

\* the exit status the shell sees of the value main returns
ExitStatus(r) == r % 256

\* a process that called no multi-touch function
Exits(name, args, w, r) ==
    /\ Finish(name, args, w, r)
    /\ SetTracker(StartTracker)
    /\ down_run' = 0
    /\ run_asserts' = 0
    /\ UNCHANGED alloc_hist

\* a process that called one multi-touch function
ExitsMt(name, args, r) ==
    /\ Finish(name, args, r.w, r.ret)
    /\ SetTracker(r.t)
    /\ alloc_hist' = LastTwo(alloc_hist \o r.tids)
    /\ down_run' = 0
    /\ run_asserts' = 0

\* -h and -v return RS_OK before any command is read
MainHelp == Exits("help", <<>>, NewWriter, RS_OK)

\* optind >= argc
MainMissingCommand == Exits("missing-command", <<>>, NewWriter, RS_ERR)

\* open_dev() returned RS_ERR
MainOpenFails == Exits("open-failed", <<>>, NewWriter, RS_ERR)

MainTap ==
    \E x \in Coords, y \in Coords, hold \in OptHold, failAt \in MainFailPoints(10) :
        LET w == do_tap(NewWriter, x, y, OptArg(hold, TAP_DEFAULT_HOLD), failAt)
        IN Exits("tap", <<x, y>> \o hold, w, Result(w))

MainPress ==
    \E x \in Coords, y \in Coords, failAt \in MainFailPoints(6) :
        LET w == do_press(NewWriter, x, y, failAt)
        IN Exits("press", <<x, y>>, w, Result(w))

MainRelease ==
    \E failAt \in MainFailPoints(4) :
        LET w == do_release(NewWriter, failAt)
        IN Exits("release", <<>>, w, Result(w))

MainLongpress ==
    \E x \in Coords, y \in Coords, hold \in HoldMs, failAt \in MainFailPoints(10) :
        LET w == do_longpress(NewWriter, x, y, hold, failAt)
        IN Exits("longpress", <<x, y, hold>>, w, Result(w))

MainSwipe ==
    \E p \in SwipePaths, ms \in DurationMs, steps \in OptSteps :
    \E failAt \in MainFailPoints(
            12 + 3 * swipe_steps(OptArg(steps, MAIN_DEFAULT_STEPS))) :
        LET w == do_swipe(NewWriter, p[1], p[2], p[3], p[4], ms,
                          OptArg(steps, MAIN_DEFAULT_STEPS), failAt)
        IN Exits("swipe", <<p[1], p[2], p[3], p[4], ms>> \o steps, w, Result(w))

MainMtDown ==
    \E slot \in SlotArgs, p \in DownPoints, failAt \in MainFailPoints(8) :
        /\ MAX_SLOTS > 1
        /\ ExitsMt("mt-down", <<slot, p[1], p[2]>>,
                   mt_down(StartTracker, NewWriter, slot, p[1], p[2], failAt))

MainMtMove ==
    \E slot \in SlotArgs, p \in MovePoints, failAt \in MainFailPoints(5) :
        /\ MAX_SLOTS > 1
        /\ ExitsMt("mt-move", <<slot, p[1], p[2]>>,
                   mt_move(StartTracker, NewWriter, slot, p[1], p[2], failAt))

MainMtUp ==
    \E slot \in SlotArgs, failAt \in MainFailPoints(6) :
        /\ MAX_SLOTS > 1
        /\ ExitsMt("mt-up", <<slot>>,
                   mt_up(StartTracker, NewWriter, slot, failAt))

\* the final else: usage() is printed and ret keeps its initial RS_OK
MainUnknown ==
    \E verb \in UnknownVerbs : Exits(verb, <<>>, NewWriter, RS_OK)

MainNext ==
    \/ MainHelp \/ MainMissingCommand \/ MainOpenFails
    \/ MainTap \/ MainPress \/ MainRelease \/ MainLongpress \/ MainSwipe
    \/ MainMtDown \/ MainMtMove \/ MainMtUp
    \/ MainUnknown

\* any sequence of invocations of the program on one device
SpecMain == Init /\ [][MainNext]_vars

-----------------------------------------------------------------------------
(* Properties *)

ActiveSlots == { s \in Slots : slot_tracking[s] # 0 }

IsMtOp == op.name \in {"mt-down", "mt-move", "mt-up"}

\* positions of the slot-select writes in a log
SlotSelectAt(l) ==
    { i \in 1 .. Len(l) : l[i].type = "EV_ABS" /\ l[i].code = "ABS_MT_SLOT" }

\* C1 (SpecMt): after any sequence of mt-down / mt-move / mt-up calls the
\* active-touch count equals the number of slots whose tracking ID is
\* nonzero.  The code breaks it: see C1 in the results.
C1_CountEqualsActiveSlots == active_touches = Cardinality(ActiveSlots)

C3_ActiveIdsDistinct ==
    \A a \in Slots, b \in Slots :
        (a # b /\ slot_tracking[a] # 0 /\ slot_tracking[b] # 0)
            => slot_tracking[a] # slot_tracking[b]

\* C4 (SpecMt): every tracking ID handed out by mt-down lies in
\* 1..TID_CEILING (never 0) and is the one stored in the slot; the ID handed
\* out after id is id + 1, and the one after TID_CEILING is 1.
C4_TrackingIdsWrapToOne ==
    /\ next_tracking_id \in 1 .. TID_CEILING
    /\ \A i \in 1 .. Len(alloc_hist) : alloc_hist[i] \in 1 .. TID_CEILING
    /\ Len(alloc_hist) = 2 =>
          alloc_hist[2] = IF alloc_hist[1] = TID_CEILING THEN 1
                          ELSE alloc_hist[1] + 1
    /\ (op.name = "mt-down" /\ op.args[1] \in Slots) =>
          /\ alloc_hist # <<>>
          /\ slot_tracking[op.args[1]] = alloc_hist[Len(alloc_hist)]

\* C4 witness: the ceiling has been handed out, and then 1.
C4_Witness == alloc_hist = <<TID_CEILING, 1>> /\ op.name = "mt-down"

\* C5 (SpecMt): mt-move and mt-up on a slot whose tracking ID is 0, or on a
\* slot outside 0..MAX_SLOTS-1, return failure, write no event and leave the
\* slot table, the active count and the next tracking ID unchanged.
C5_InactiveSlotRejected ==
    [][ (/\ op'.name \in {"mt-move", "mt-up"}
         /\ (op'.args[1] \notin Slots \/ slot_tracking[op'.args[1]] = 0))
        => (/\ ret' = RS_ERR
            /\ log' = <<>>
            /\ UNCHANGED <<slot_tracking, active_touches, next_tracking_id>>) ]_vars

\* C5 witness: an mt-up on an inactive slot has been rejected while
\* another slot was active.
C5_Witness ==
    /\ op.name = "mt-up" /\ ret = RS_ERR /\ log = <<>>
    /\ op.args[1] \in Slots /\ slot_tracking[op.args[1]] = 0
    /\ ActiveSlots # {}

\* C6 (SpecSingle): when all writes succeed, tap and longpress write exactly
\* touch-down key=1, finger-tool key=1, position X, position Y,
\* multi-touch-report, frame-commit, then (after the hold) touch-down key=0,
\* finger-tool key=0, multi-touch-report, frame-commit: 2 frame-commits, the
\* positions being the mapped x and y, for every hold_ms >= 0.
C6_TapSequence ==
    (op.name \in {"tap", "longpress"} /\ ret = RS_OK) =>
        /\ log = << [type |-> "EV_KEY", code |-> "BTN_TOUCH", value |-> 1],
                    [type |-> "EV_KEY", code |-> "BTN_TOOL_FINGER", value |-> 1],
                    [type |-> "EV_ABS", code |-> "ABS_MT_POSITION_X",
                     value |-> map_x(op.args[1])],
                    [type |-> "EV_ABS", code |-> "ABS_MT_POSITION_Y",
                     value |-> map_y(op.args[2])],
                    [type |-> "EV_SYN", code |-> "SYN_MT_REPORT", value |-> 0],
                    [type |-> "EV_SYN", code |-> "SYN_REPORT", value |-> 0],
                    [type |-> "EV_KEY", code |-> "BTN_TOUCH", value |-> 0],
                    [type |-> "EV_KEY", code |-> "BTN_TOOL_FINGER", value |-> 0],
                    [type |-> "EV_SYN", code |-> "SYN_MT_REPORT", value |-> 0],
                    [type |-> "EV_SYN", code |-> "SYN_REPORT", value |-> 0] >>
        /\ Commits(log) = 2
        /\ sleeps = IF op.args[3] > 0
                    THEN << [at |-> 6, ms |-> op.args[3]] >>
                    ELSE << >>

\* C6 witness: a tap with hold_ms = 0 has succeeded on a device whose
\* coordinates are mapped.
C6_Witness ==
    /\ op.name = "tap" /\ ret = RS_OK /\ op.args[3] = 0
    /\ ui_w # 0 /\ Len(log) = 10

\* C7 as stated (SpecSingle): a successful swipe writes steps + 2
\* frame-commits (steps < 1 counted as 10).
C7_SwipeCommitsStepsPlus2 ==
    (op.name = "swipe" /\ ret = RS_OK) =>
        Commits(log) = (IF op.args[6] < 1 THEN 10 ELSE op.args[6]) + 2

\* What do_swipe writes (SpecSingle): a successful swipe writes steps + 3
\* frame-commits (steps < 1 counted as 10): two by the initial zero-hold
\* tap, whose release is the frame C19 is about, one per step, one by the
\* final release.
C7_SwipeCommitsStepsPlus3 ==
    (op.name = "swipe" /\ ret = RS_OK) =>
        Commits(log) = (IF op.args[6] < 1 THEN 10 ELSE op.args[6]) + 3

\* a swipe called with steps = 0 has succeeded
C7_Witness ==
    op.name = "swipe" /\ ret = RS_OK /\ op.args[6] = 0 /\ Commits(log) = 13

\* C8 (SpecMt): each successful mt-down, mt-move and mt-up writes exactly
\* one frame-commit, in every state of the slot table.  The code breaks it.
C8_MtOneCommit == (IsMtOp /\ ret = RS_OK) => Commits(log) = 1

\* C9 (SpecMt): starting from an empty slot table, after k >= 1 successful
\* mt-downs on k distinct slots with no up in between, the active count is k
\* and BTN_TOUCH has been asserted exactly once: by the first down, before
\* its slot-select, and by no later down.
C9_FirstDownAssertsOnce ==
    down_run >= 1 =>
        /\ active_touches = down_run
        /\ run_asserts = 1
        /\ op.name = "mt-down" =>
              IF down_run = 1
              THEN /\ BtnTouchWrites(log) = {1}
                   /\ log[1].value = 1
                   /\ \A i \in SlotSelectAt(log) : i > 1
                   /\ SlotSelectAt(log) # {}
              ELSE BtnTouchWrites(log) = {}

\* C9 witness: two downs on two distinct slots from the empty table.
C9_Witness ==
    /\ down_run = 2 /\ op.name = "mt-down" /\ ret = RS_OK
    /\ Cardinality(ActiveSlots) = 2

\* C10 (SpecMt): a successful mt-up writes BTN_TOUCH = 0 exactly once, after
\* its termination frame, when it releases the last active slot, and writes
\* no BTN_TOUCH event otherwise.  The code breaks it.
C10_LastUpDeassertsOnce ==
    (op.name = "mt-up" /\ ret = RS_OK) =>
        IF ActiveSlots = {}
        THEN /\ BtnTouchWrites(log) = {5}
             /\ log[5].value = 0
             /\ log[4] = SynReport
        ELSE BtnTouchWrites(log) = {}

-----------------------------------------------------------------------------
(* The coordinate mapper on its own: map_x and map_y called with any       *)
(* logical coordinate, under any logical resolution and any device.        *)

\* logical coordinates run over -MaxLogical .. MaxLogical
MaxLogical == 5

LogicalCoords == -MaxLogical .. MaxLogical

\* --map W H takes what atoi returns: 0 (no mapping), a positive or a
\* negative dimension
MapDims == {0, 4, -3}

\* what EVIOCGABS can answer for an axis: failure, or a range; nothing
\* keeps a driver from reporting minimum > maximum
MapAxes == { NoAxis, Axis(0, 8), Axis(-3, 5), Axis(7, 1) }

InitMap ==
    /\ slot_tracking = [s \in Slots |-> 0]
    /\ next_tracking_id = 1
    /\ active_touches = 0
    /\ ui_w \in MapDims
    /\ ui_h \in MapDims
    /\ absinfo \in [AxisCodes -> MapAxes]
    /\ btn_touch = 0
    /\ log = <<>>
    /\ sleeps = <<>>
    /\ ret = RS_OK
    /\ op = [name |-> "none", args |-> <<>>]
    /\ write_failed = FALSE
    /\ alloc_hist = <<>>
    /\ down_run = 0
    /\ run_asserts = 0

MapCall(name, l, result) ==
    /\ op' = [name |-> name, args |-> <<l>>]
    /\ ret' = result
    /\ UNCHANGED <<slot_tracking, next_tracking_id, active_touches, ui_w, ui_h,
                   absinfo, btn_touch, log, sleeps, write_failed, alloc_hist,
                   down_run, run_asserts>>

MapX == \E l \in LogicalCoords : MapCall("map_x", l, map_x(l))

MapY == \E l \in LogicalCoords : MapCall("map_y", l, map_y(l))

MapNext == MapX \/ MapY

\* any sequence of calls of the mapper under one configuration
SpecMap == InitMap /\ [][MapNext]_vars

IsMapOp == op.name \in {"map_x", "map_y"}

\* the logical dimension and the two axis answers a mapper call reads
DimOf(name) == IF name = "map_x" THEN ui_w ELSE ui_h
MtAxisOf(name) ==
    absinfo[IF name = "map_x" THEN "ABS_MT_POSITION_X" ELSE "ABS_MT_POSITION_Y"]
StAxisOf(name) == absinfo[IF name = "map_x" THEN "ABS_X" ELSE "ABS_Y"]

\* C11 (SpecMap): with no UI resolution configured (width and height both
\* 0) the mapper returns its input unchanged, for every coordinate and every
\* device, whether or not the axis queries would succeed.
C11_IdentityWhenUnset ==
    (IsMapOp /\ ui_w = 0 /\ ui_h = 0) => ret = op.args[1]

\* C11 witness: a nonzero coordinate has passed through on a device whose
\* multi-touch axis would have answered with a range.
C11_Witness ==
    /\ op.name = "map_x" /\ ui_w = 0 /\ ui_h = 0
    /\ absinfo["ABS_MT_POSITION_X"] = Axis(-3, 5)
    /\ op.args[1] = 2 /\ ret = 2

\* C12 as stated (SpecMap): for a fixed axis range and a fixed logical
\* dimension, x1 < x2 implies map(x1) <= map(x2), for all coordinates and
\* all axis ranges: two calls in a row of the same mapper.
C12_Monotonic ==
    [][ (IsMapOp /\ op'.name = op.name /\ op.args[1] < op'.args[1])
        => ret <= ret' ]_vars

\* the range a mapper call scales by has minimum <= maximum (or no axis
\* answers), and the dimension is positive or unset
C12_OrderedRange(name) ==
    /\ DimOf(name) >= 0
    /\ MtAxisOf(name).ok => MtAxisOf(name).minimum <= MtAxisOf(name).maximum
    /\ (~MtAxisOf(name).ok /\ StAxisOf(name).ok)
          => StAxisOf(name).minimum <= StAxisOf(name).maximum

\* C12 as amended (SpecMap): for a fixed axis range with minimum <= maximum
\* and a fixed logical dimension that is positive (or unset), x1 < x2
\* implies map(x1) <= map(x2).
C12_MonotonicOnOrderedRange ==
    [][ (IsMapOp /\ op'.name = op.name /\ op.args[1] < op'.args[1]
         /\ C12_OrderedRange(op.name))
        => ret <= ret' ]_vars

\* C12 witness: a coordinate has been scaled onto an ordered range under a
\* positive dimension.
C12_Witness ==
    /\ op.name = "map_y" /\ ui_h = 4
    /\ ~absinfo["ABS_MT_POSITION_Y"].ok /\ absinfo["ABS_Y"] = Axis(-3, 5)
    /\ op.args[1] = -1 /\ ret = -5

\* n / d as C divides: the q with n = q * d + r, |r| < |d|, r zero or of
\* the sign of n
C16_Truncated(n, d) ==
    CHOOSE q \in -Abs(n) .. Abs(n) :
        LET r == n - q * d
        IN Abs(r) < Abs(d) /\ (r = 0 \/ (r > 0) = (n > 0))

\* the rescaling of the reference
C16_Scaled(l, ax, dim) ==
    C16_Truncated(l * (ax.maximum - ax.minimum), dim) + ax.minimum

\* C16 (SpecMap): with a logical dimension configured the mapper returns
\* the coordinate scaled by the multi-touch axis range if that query
\* succeeds, else by the single-touch axis range if that query succeeds, else
\* the coordinate unchanged; scaled is l * (max - min) / dim + min with
\* truncating division.
C16_MapperMatchesReference ==
    (IsMapOp /\ DimOf(op.name) # 0) =>
        ret = IF MtAxisOf(op.name).ok
              THEN C16_Scaled(op.args[1], MtAxisOf(op.name), DimOf(op.name))
              ELSE IF StAxisOf(op.name).ok
              THEN C16_Scaled(op.args[1], StAxisOf(op.name), DimOf(op.name))
              ELSE op.args[1]

\* C16 witness: the multi-touch query fails, the single-touch range (0, 8)
\* is used and the quotient -5 * 8 / -3 = 13.33 is truncated to 13.
C16_Witness ==
    /\ op.name = "map_x" /\ ui_w = -3
    /\ ~absinfo["ABS_MT_POSITION_X"].ok /\ absinfo["ABS_X"] = Axis(0, 8)
    /\ op.args[1] = -5 /\ ret = 13

-----------------------------------------------------------------------------
(* Failure of a device write *)

\* the events call o writes from the current state when no write fails
UnfailedLog(o) ==
    LET a == o.args
    IN CASE o.name = "tap"       -> do_tap(NewWriter, a[1], a[2], a[3], 0).log
         [] o.name = "press"     -> do_press(NewWriter, a[1], a[2], 0).log
         [] o.name = "release"   -> do_release(NewWriter, 0).log
         [] o.name = "longpress" -> do_longpress(NewWriter, a[1], a[2], a[3], 0).log
         [] o.name = "swipe"     ->
                do_swipe(NewWriter, a[1], a[2], a[3], a[4], a[5], a[6], 0).log
         [] o.name = "mt-down"   ->
                mt_down(Tracker, NewWriter, a[1], a[2], a[3], 0).w.log
         [] o.name = "mt-move"   ->
                mt_move(Tracker, NewWriter, a[1], a[2], a[3], 0).w.log
         [] o.name = "mt-up"     -> mt_up(Tracker, NewWriter, a[1], 0).w.log
         [] OTHER                -> <<>>

IsProperPrefix(l, full) ==
    Len(l) < Len(full) /\ l = SubSeq(full, 1, Len(l))

\* C13 (SpecCalls): in every gesture operation the first device write that
\* fails ends the operation: it returns failure, and what it has written is
\* the events before the failing write and nothing after them, neither the
\* rest of the sequence nor a compensating event.
C13_FailedWriteEndsOperation ==
    [][ write_failed' =>
            /\ ret' = RS_ERR
            /\ IsProperPrefix(log', UnfailedLog(op')) ]_vars

\* C13 witness: an mt-up has failed at its third write, after the
\* slot-select and the tracking-ID termination.
C13_Witness ==
    /\ op.name = "mt-up" /\ write_failed /\ ret = RS_ERR
    /\ Len(log) = 2 /\ log[2].code = "ABS_MT_TRACKING_ID"

-----------------------------------------------------------------------------
(* One process per verb *)

IsInvocation == op.name \notin {"none", "help"}

\* the selected gesture ran to its end: a verb of the dispatch, no guard
\* rejected it and no write failed
GestureSucceeded ==
    /\ op.name \in {"tap", "press", "release", "longpress", "swipe",
                     "mt-down", "mt-move", "mt-up"} \ UnknownVerbs
    /\ ~write_failed
    /\ log # <<>>

\* C15: the exit status is zero when the selected gesture succeeded and
\* nonzero otherwise: a failed write, a rejected argument, a missing
\* command, a verb the build does not recognise.
C15_ExitStatusReportsFailure ==
    IsInvocation => (ExitStatus(ret) = 0 <=> GestureSucceeded)

\* what the code does hold to: every failure but the unknown verb is
\* reported
C15_ExitStatusUnlessUnknownVerb ==
    IsInvocation /\ op.name \notin UnknownVerbs =>
        (ExitStatus(ret) = 0 <=> GestureSucceeded)
-----------------------------------------------------------------------------
(* The contact during a swipe *)

\* the last BTN_TOUCH write before position i of a log (0: none)
LastBtnTouchBefore(l, i) ==
    LET prev == { j \in BtnTouchWrites(l) : j < i }
    IN IF prev = {} THEN 0 ELSE CHOOSE j \in prev : \A k \in prev : k <= j

\* C19 (SpecSingle): in a successful swipe every position frame is written
\* while the contact is down (the last BTN_TOUCH written before it is 1),
\* and BTN_TOUCH = 0 is written only after the last position frame.
C19_SwipeFramesWhileDown ==
    (op.name = "swipe" /\ ret = RS_OK) =>
        /\ \A i \in 1 .. Len(log) :
               log[i].code = "ABS_X" =>
                   /\ LastBtnTouchBefore(log, i) # 0
                   /\ log[LastBtnTouchBefore(log, i)].value = 1
        /\ BtnTouchAt(log, 0) = {Len(log) - 1}
-----------------------------------------------------------------------------
(* The life of a slot *)

TrackerUnchanged == UNCHANGED <<slot_tracking, active_touches, next_tracking_id>>

\* C17 (SpecMt): an mt-down on a slot that is active is rejected: it
\* returns failure, writes nothing, allocates no tracking ID and leaves the
\* slot table and the active count unchanged.  The code breaks it.
C17_SecondDownRejected ==
    [][ (/\ op'.name = "mt-down"
         /\ op'.args[1] \in Slots
         /\ slot_tracking[op'.args[1]] # 0)
        => (/\ ret' = RS_ERR
            /\ log' = <<>>
            /\ TrackerUnchanged) ]_vars

\* C18 (SpecMt): a successful mt-move writes slot-select, position X,
\* position Y, multi-touch-report, frame-commit, in that order and nothing
\* else, the positions being the mapped x and y, and leaves every slot's
\* tracking ID, the active count and the next tracking ID unchanged.
C18_MoveFrame ==
    [][ (op'.name = "mt-move" /\ ret' = RS_OK) =>
            /\ log' = << [type |-> "EV_ABS", code |-> "ABS_MT_SLOT",
                           value |-> op'.args[1]],
                          [type |-> "EV_ABS", code |-> "ABS_MT_POSITION_X",
                           value |-> map_x(op'.args[2])],
                          [type |-> "EV_ABS", code |-> "ABS_MT_POSITION_Y",
                           value |-> map_y(op'.args[3])],
                          [type |-> "EV_SYN", code |-> "SYN_MT_REPORT", value |-> 0],
                          [type |-> "EV_SYN", code |-> "SYN_REPORT", value |-> 0] >>
            /\ TrackerUnchanged ]_vars

\* a slot has been moved while another slot was active too
C18_Witness ==
    /\ op.name = "mt-move" /\ ret = RS_OK /\ Len(log) = 5
    /\ Cardinality(ActiveSlots) = 2
    /\ log[2].value # op.args[2]

\* C20 (SpecMt): a multi-touch call that returns failure leaves the slot
\* table, the active count and the next tracking ID as they were.  The
\* code breaks it.
C20_FailureLeavesTrackerUnchanged ==
    [][ (op'.name \in {"mt-down", "mt-move", "mt-up"} /\ ret' = RS_ERR)
        => TrackerUnchanged ]_vars

\* What the code does hold to (SpecMt): the tracker is unchanged by a call
\* its guard rejects, by a failed mt-move, and by an mt-up that fails
\* within the four writes of its termination frame.
C20_FailureBeforeTrackerWrite ==
    [][ (/\ ret' = RS_ERR
         /\ \/ op'.name \in {"mt-down", "mt-move", "mt-up"} /\ ~write_failed'
            \/ op'.name = "mt-move"
            \/ op'.name = "mt-up" /\ Len(log') < 4)
        => TrackerUnchanged ]_vars
====
